---- MODULE Spec2Model ----
(***************************************************************************)
(* A model of sourcegraph/maintainerbot: the Bot loop (maintainerbot.go)   *)
(* and the tasks of package tasks (tasks/tasks.go).                        *)
(*                                                                         *)
(* The specifications share the Bot loop:                                  *)
(*   Spec         the Bot with up to MaxTasks opaque tasks, whose Do       *)
(*                returns nil or an error, over a repository that changes; *)
(*   SpecCLA      the Bot with one CLAChecker task, the allowlist          *)
(*                refresher goroutine and the GitHub statuses API;         *)
(*   SpecExempt   the same on one pull request, with diffs around the      *)
(*                limits of the deployment's exemption predicate;          *)
(*   SpecAllExempt the same, every head commit being exempt;               *)
(*   SpecWait     the Bot with a CLAChecker and one more task, and the     *)
(*                cancellation of the context;                             *)
(*   SpecLock     the Bot with one CLAChecker task and the refresher,      *)
(*                with the lock of the allowlist taken and released;       *)
(*   SpecFetch    the allowlist refresher goroutine alone;                 *)
(*   SpecCongrats the Bot with one Congratulator task;                     *)
(*   SpecRelabel  the same, on a repository whose labels are taken off;    *)
(*   SpecCSV      getUsernames on CSV files;                               *)
(*   SpecSheet    SpreadsheetFetcher.LoadContributors on CSV sheets.       *)
(* FairSpec, FairSpecWait and FairSpecFetch add weak fairness on the steps *)
(* of the goroutines.                                                      *)
(***************************************************************************)
EXTENDS Naturals, Integers, Sequences, FiniteSets, TLC

\* ------------------------------------------------------------------ bounds
MaxTasks == 3
MaxIssues == 2
\* head commits a pull request gets
MaxHead == 2
\* length of the list a ContributorFetcher returns
MaxFetch == 2

\* GitHub logins
Logins == {"alice", "bob"}

VARIABLES
    \* ---- the process and its root context
    ctxDone,      \* the context given to Run / StartFetch is canceled
    proc,         \* "running", or "exited" after log.Fatal, or "panicked"
    \* ---- GitHub, the world outside
    github,       \* the repository's issues on GitHub: sequence, index = number
    \* ---- Bot
    tasks,        \* Bot.tasks: registered tasks, in registration order
    taskMu,       \* Bot.taskMu is held
    repo,         \* Bot.repo: the mirror's snapshot of the issues
    runPc,        \* where the Run goroutine is
    taskIdx,      \* doTasks' loop index i (1-based)
    doErr,        \* doTasks' result: TRUE when it returned an error
    \* ---- history of the current task pass
    inDo,         \* indexes of the tasks whose Do has been called and has not returned
    passLog,      \* the Do calls of the pass: <<[task, repo]>>, in call order
    passRes,      \* their results: "ok" / "err", in return order
    errLogged,    \* Run logged doTasks' error for this pass
    \* ---- GitHub's pull request and status API
    pulls,        \* per issue number: the pull request's head commit and its diff
    statuses,     \* per issue number, per commit (index = SHA): its statuses, newest first
    \* ---- CLAChecker
    canSkipSet,   \* CLAChecker.CanSkipCLA is set (to the deployment's predicate)
    signedCLAPRs, \* CLAChecker.signedCLAPRs: the keys of the map
    contributorsLoaded, \* the channel: [made, buf, closed], capacity 1
    contributors, \* CLAChecker.contributors: the keys of the map
    sentContributors, \* loadContributors' local
    fetched,      \* loadContributors' local `contributors`, the fetched slice
    fetchPc,      \* where the loadContributors goroutine is
    claPc,        \* where CLAChecker.Do is
    claIdx,       \* the issue ForeachIssue is at
    claOk,        \* Do's local `ok`: the author was found in the allowlist
    claPr,        \* Do's local `pr`: [SHA, Additions, Deletions], as Get returned it
    claFiles,     \* Do's local `files`, as ListFiles returned them
    claStatuses,  \* Do's local `statuses`, as ListStatuses returned them
    \* ---- history of the CLAChecker
    installed,    \* a fetched allowlist has been installed
    signals,      \* number of sends on contributorsLoaded
    apiFail,      \* the API call whose failure ended the current Do pass, or "none"
    stable,       \* in a Do pass: no allowlist install, no new head commit since it began
    \* ---- Congratulator
    knownContributors, \* Congratulator.knownContributors: the keys mapped to true
    prs,          \* Do's local map prs: login -> issue number
    congPc,       \* where Congratulator.Do is
    congIdx,      \* the issue ForeachIssue is at
    congUser,     \* the range loop's username while the comment is posted, or ""
    \* ---- history of the current Congratulator.Do pass
    calls,        \* its GitHub API calls that succeeded: <<[call, n]>>, in call order
    knownBefore,  \* knownContributors when the pass began
    welcomed,     \* the authors a CreateComment call of this process succeeded for
    \* ---- getUsernames
    csvFile,      \* the argument `file` (the sheet's body): a sequence of characters
    csvColumn,    \* the argument `columnName` (SpreadsheetFetcher.ColumnName)
    csvPc,        \* "call" before getUsernames has run, "returned" after; "load"
                  \* before LoadContributors has, "loaded" or "neterr" after
    usernames,    \* its result: [err, values]
    \* ---- CLAChecker, the lock of the allowlist
    contributorMu, \* CLAChecker.contributorMu: the goroutine that holds it, or ""
    contributorMap, \* loadContributors' local contributorMap: the keys put so far
    buildIdx      \* the i of loadContributors' loop that fills contributorMap

botVars == <<tasks, taskMu, repo, runPc, taskIdx, doErr, inDo, passLog, passRes, errLogged>>
apiVars == <<pulls, statuses>>
fetchVars == <<contributorsLoaded, contributors, sentContributors, fetched, fetchPc,
               installed, signals>>
callVars == <<claPr, claFiles, claStatuses>>
doVars == <<signedCLAPRs, claPc, claIdx, claOk, apiFail, callVars>>
claVars == <<canSkipSet, fetchVars, doVars, stable, apiVars>>
congVars == <<knownContributors, prs, congPc, congIdx, congUser, calls, knownBefore, welcomed>>
csvVars == <<csvFile, csvColumn, csvPc, usernames>>
lockVars == <<contributorMu, contributorMap, buildIdx>>
vars == <<ctxDone, proc, github, botVars, claVars, congVars, csvVars, lockVars>>

\* maintner.GitHubIssue, the fields the tasks read
Issue(login, isPR) ==
    [NotExist |-> FALSE, PullRequest |-> isPR, Closed |-> FALSE,
     Login |-> login, Labels |-> {}]

\* An open, existing pull request: what CLAChecker.Do does not filter out.
IsOpenPR(gh) == ~gh.NotExist /\ gh.PullRequest /\ ~gh.Closed

\* ------------------------------------------------------------------ Init
\* maintainerbot.New: no task registered, no corpus yet
InitBot ==
    /\ tasks = <<>>
    /\ taskMu = FALSE
    /\ repo = <<>>
    /\ runPc = "setup"
    /\ taskIdx = 0
    /\ doErr = FALSE
    /\ inDo = {}
    /\ passLog = <<>>
    /\ passRes = <<>>
    /\ errLogged = FALSE

\* A file name is a sequence of characters.
FileDoc == <<"R", ".", "m", "d">>
FileGo == <<"a", ".", "g", "o">>

\* The diffs a head commit may carry: github.PullRequest's Additions and
\* Deletions, and the pull request's []*github.CommitFile.
DiffDocs == [Additions |-> 12, Deletions |-> 8, Files |-> <<FileDoc>>]
DiffCode == [Additions |-> 12, Deletions |-> 8, Files |-> <<FileDoc, FileGo>>]
Diffs == {DiffDocs, DiffCode}

\* A status another application (a CI) has posted on a commit.
CIStatus ==
    [Context |-> "ci", State |-> "failure", Description |-> "build", TargetURL |-> ""]

\* The statuses of a pull request before the bot has posted any: its first
\* head commit carries the CI's status.
FirstHead == << <<CIStatus>> >>
InitStatuses == [n \in 1..MaxIssues |-> FirstHead]

\* The zero value of Do's local `pr`.
NoPr == [SHA |-> 0, Additions |-> 0, Deletions |-> 0]

\* tasks.NewCLAChecker: nil maps, nil channel, no goroutine
InitChecker ==
    /\ signedCLAPRs = {}
    /\ contributorsLoaded = [made |-> FALSE, buf |-> 0, closed |-> FALSE]
    /\ contributors = {}
    /\ sentContributors = FALSE
    /\ fetched = <<>>
    /\ fetchPc = "off"
    /\ claPc = "idle"
    /\ claIdx = 0
    /\ claOk = FALSE
    /\ claPr = NoPr
    /\ claFiles = <<>>
    /\ claStatuses = <<>>
    /\ installed = FALSE
    /\ signals = 0
    /\ apiFail = "none"
    /\ stable = FALSE
    /\ contributorMu = ""
    /\ contributorMap = {}
    /\ buildIdx = 0

\* tasks.NewCongratulator: a nil knownContributors map
InitCongratulator ==
    /\ knownContributors = {}
    /\ prs = <<>>
    /\ congPc = "idle"
    /\ congIdx = 0
    /\ congUser = ""
    /\ calls = <<>>
    /\ knownBefore = {}
    /\ welcomed = {}

\* No call of getUsernames is under way.
InitNoCSV ==
    /\ csvFile = <<>>
    /\ csvColumn = <<>>
    /\ csvPc = "off"
    /\ usernames = [err |-> FALSE, values |-> <<>>]

\* Spec: a Bot on a repository that has no issue yet; no CLAChecker is used.
Init ==
    /\ ctxDone = FALSE
    /\ proc = "running"
    /\ github = <<>>
    /\ InitBot
    /\ InitChecker
    /\ InitCongratulator
    /\ InitNoCSV
    /\ canSkipSet = FALSE
    /\ pulls = <<>>
    /\ statuses = <<>>

\* The issues a repository may hold when the bot starts: open pull requests
\* and, as issue 1, a closed one, a plain issue or a deleted (tombstoned) one.
IssueKinds ==
    { Issue(l, TRUE) : l \in Logins }
      \cup { [Issue("alice", TRUE) EXCEPT !.Closed = TRUE],
             Issue("alice", FALSE),
             [Issue("alice", TRUE) EXCEPT !.NotExist = TRUE] }

\* SpecCLA: a Bot and a CLAChecker, set up as the deployment's main does
\* (CanSkipCLA set), on a repository of MaxIssues issues. Issue 1 is one the
\* callback skips (closed, a plain issue or a tombstone; alice's, the logins
\* are interchangeable); the later ones are open pull requests.
InitCLA ==
    /\ ctxDone = FALSE
    /\ proc = "running"
    /\ github \in [1..MaxIssues -> IssueKinds]
    /\ github[1].Login = "alice"
    /\ ~IsOpenPR(github[1])
    /\ \A n \in 2..MaxIssues : IsOpenPR(github[n])
    /\ InitBot
    /\ InitChecker
    /\ InitCongratulator
    /\ InitNoCSV
    /\ canSkipSet = TRUE
    /\ pulls \in [1..MaxIssues -> {[SHA |-> 1, Diff |-> d] : d \in Diffs}]
    /\ \A n \in 1..MaxIssues : ~IsOpenPR(github[n]) => pulls[n].Diff = DiffCode
    /\ statuses = InitStatuses

\* ------------------------------------------------------------------ the world
\* Someone opens a pull request on GitHub.
OpenPR(login) ==
    /\ proc = "running"
    /\ Len(github) < MaxIssues
    /\ github' = Append(github, Issue(login, TRUE))
    /\ UNCHANGED <<ctxDone, congVars, csvVars, lockVars, proc, botVars, claVars>>

\* Someone closes (or merges) an issue on GitHub.
CloseIssue(n) ==
    /\ proc = "running"
    /\ n \in 1..Len(github)
    /\ ~github[n].Closed
    /\ github' = [github EXCEPT ![n].Closed = TRUE]
    /\ UNCHANGED <<ctxDone, congVars, csvVars, lockVars, proc, botVars, claVars>>

\* main cancels the context it gave to Run and to StartFetch.
Cancel ==
    /\ proc = "running"
    /\ runPc # "setup" \/ fetchPc # "off"
    /\ ~ctxDone
    /\ ctxDone' = TRUE
    /\ UNCHANGED <<proc, github, botVars, claVars, congVars, csvVars, lockVars>>

\* ------------------------------------------------------------------ Bot
\* Bot.RegisterTask: append t to b.tasks (before Run).
RegisterTask(t) ==
    /\ proc = "running"
    /\ runPc = "setup"
    /\ Len(tasks) < MaxTasks
    /\ tasks' = Append(tasks, t)
    /\ UNCHANGED <<ctxDone, congVars, csvVars, lockVars, proc, github, taskMu, repo, runPc, taskIdx, doErr,
                   inDo, passLog, passRes, errLogged>>
    /\ UNCHANGED claVars

\* Bot.Run is called: its first statement is b.initCorpus(ctx).
RunStart ==
    /\ proc = "running"
    /\ runPc = "setup"
    /\ runPc' = "initCorpus"
    /\ UNCHANGED <<ctxDone, congVars, csvVars, lockVars, proc, github, tasks, taskMu, repo, taskIdx, doErr,
                   inDo, passLog, passRes, errLogged>>
    /\ UNCHANGED claVars

\* Bot.initCorpus: a new corpus is initialized from GitHub; log.Fatal when
\* Initialize fails or the repository is not in the corpus. On success
\* b.corpus and b.repo are replaced and the caller goes on at `next`.
initCorpus(at, next) ==
    /\ proc = "running"
    /\ runPc = at
    /\ \E ok \in BOOLEAN :
         IF ok
           THEN /\ repo' = github
                /\ runPc' = next
                /\ proc' = proc
           ELSE /\ proc' = "exited"
                /\ UNCHANGED <<repo, runPc>>
    /\ UNCHANGED <<ctxDone, congVars, csvVars, lockVars, github, tasks, taskMu, taskIdx, doErr,
                   inDo, passLog, passRes, errLogged>>
    /\ UNCHANGED claVars

\* Run, line 86: the initial initCorpus, then the first pass (no tick awaited).
RunInitCorpus == initCorpus("initCorpus", "doTasks")

\* doTasks: b.taskMu.Lock(), and the loop starts at the first task.
DoTasksLock ==
    /\ proc = "running"
    /\ runPc = "doTasks"
    /\ ~taskMu
    /\ taskMu' = TRUE
    /\ taskIdx' = 1
    /\ passLog' = <<>>
    /\ passRes' = <<>>
    /\ errLogged' = FALSE
    /\ runPc' = "taskLoop"
    /\ UNCHANGED <<ctxDone, congVars, csvVars, lockVars, proc, github, tasks, repo, doErr, inDo>>
    /\ UNCHANGED claVars

\* (faulty variant of TaskAt: the loop runs from the last task down)
TaskAtReversed(i) == Len(tasks) + 1 - i

\* The task doTasks' loop calls at index i.
TaskAt(i) == i

\* doTasks, loop head: past the last task it returns nil (and unlocks);
\* otherwise it calls b.tasks[i].Do(ctx, b.repo).
DoTasksLoop ==
    /\ proc = "running"
    /\ runPc = "taskLoop"
    /\ IF taskIdx > Len(tasks)
         THEN /\ taskMu' = FALSE
              /\ doErr' = FALSE
              /\ runPc' = "afterTasks"
              /\ UNCHANGED <<inDo, passLog>>
         ELSE /\ inDo' = inDo \cup {TaskAt(taskIdx)}
              /\ passLog' = Append(passLog, [task |-> TaskAt(taskIdx), repo |-> repo])
              /\ runPc' = "inDo"
              /\ UNCHANGED <<taskMu, doErr>>
    /\ UNCHANGED <<ctxDone, congVars, csvVars, lockVars, proc, github, tasks, repo, taskIdx, passRes, errLogged>>
    /\ UNCHANGED claVars

\* doTasks, lines 74-77: the Do call returned err. A non-nil err ends the
\* loop at once: doTasks returns it (the deferred Unlock runs).
DoReturn(failed) ==
    /\ inDo' = inDo \ {TaskAt(taskIdx)}
    /\ passRes' = Append(passRes, IF failed THEN "err" ELSE "ok")
    /\ IF failed
         THEN /\ taskMu' = FALSE
              /\ doErr' = TRUE
              /\ runPc' = "afterTasks"
              /\ UNCHANGED taskIdx
         ELSE /\ taskIdx' = taskIdx + 1
              /\ runPc' = "taskLoop"
              /\ UNCHANGED <<taskMu, doErr>>

\* An opaque task: its Do returns nil or an error.
StubDo ==
    /\ proc = "running"
    /\ runPc = "inDo"
    /\ tasks[TaskAt(taskIdx)] = "stub"
    /\ \E failed \in BOOLEAN : DoReturn(failed)
    /\ UNCHANGED <<ctxDone, congVars, csvVars, lockVars, proc, github, tasks, repo, passLog, errLogged>>
    /\ UNCHANGED claVars

\* Run, lines 91-96: doTasks returned; its error, if any, is logged (and the
\* history of the pass that the CLAChecker keeps ends with it).
AfterTasks ==
    /\ proc = "running"
    /\ runPc = "afterTasks"
    /\ errLogged' = doErr
    /\ runPc' = "sync"
    /\ UNCHANGED <<ctxDone, congVars, csvVars, lockVars, proc, github, tasks, taskMu, repo, taskIdx, doErr,
                   inDo, passLog, passRes>>
    /\ apiFail' = "none"
    /\ stable' = FALSE
    /\ UNCHANGED <<canSkipSet, fetchVars, apiVars, signedCLAPRs, claPc, claIdx, claOk, callVars>>

\* What corpus.Sync(ctx) may return: its requests to GitHub carry ctx, so
\* once ctx is canceled it fails with the context's error.
SyncResults == IF ctxDone THEN {"error"} ELSE {"nil", "ErrSplit", "error"}

\* Run, lines 97-112: b.corpus.Sync(ctx). nil: the mirror is up to date and
\* the loop waits for the next tick; ErrSplit: the corpus is re-fetched;
\* another error: sleep 15s and Sync again.
Sync ==
    /\ proc = "running"
    /\ runPc = "sync"
    /\ \E res \in SyncResults :
         /\ repo' = IF res = "nil" THEN github ELSE repo
         /\ runPc' = CASE res = "nil" -> "tick"
                       [] res = "ErrSplit" -> "reinitCorpus"
                       [] OTHER -> "sleep"
    /\ UNCHANGED <<ctxDone, congVars, csvVars, lockVars, proc, github, tasks, taskMu, taskIdx, doErr,
                   inDo, passLog, passRes, errLogged>>
    /\ UNCHANGED claVars

\* Run, line 103: initCorpus after ErrSplit; then line 110-111, break.
RunReinitCorpus == initCorpus("reinitCorpus", "tick")

\* (faulty variant of AfterSleep: the loop goes on to the next task pass)
AfterSleepSkipsSync == "tick"

\* Run, line 107: `continue` in the inner loop: Sync is called again.
AfterSleep == "sync"

\* Run, lines 106-107: time.Sleep(15s); continue.
Sleep ==
    /\ proc = "running"
    /\ runPc = "sleep"
    /\ runPc' = AfterSleep
    /\ UNCHANGED <<ctxDone, congVars, csvVars, lockVars, proc, github, tasks, taskMu, repo, taskIdx, doErr,
                   inDo, passLog, passRes, errLogged>>
    /\ UNCHANGED claVars

\* Run, line 89: <-ticker.C, then the next pass.
Tick ==
    /\ proc = "running"
    /\ runPc = "tick"
    /\ runPc' = "doTasks"
    /\ UNCHANGED <<ctxDone, congVars, csvVars, lockVars, proc, github, tasks, taskMu, repo, taskIdx, doErr,
                   inDo, passLog, passRes, errLogged>>
    /\ UNCHANGED claVars


\* ------------------------------------------------------------------ GitHub API
\* A new head commit is pushed to an open pull request: it has no status yet.
PushCommit(n, d) ==
    /\ proc = "running"
    /\ n \in 1..Len(github)
    /\ n \in DOMAIN pulls
    /\ IsOpenPR(github[n])
    /\ pulls[n].SHA < MaxHead
    /\ pulls' = [pulls EXCEPT ![n] = [SHA |-> @.SHA + 1, Diff |-> d]]
    /\ statuses' = [statuses EXCEPT ![n] = Append(@, <<>>)]
    /\ stable' = FALSE
    /\ UNCHANGED <<ctxDone, congVars, csvVars, lockVars, proc, github, botVars, canSkipSet, fetchVars, doVars>>

\* ------------------------------------------------------------------ allowlist refresher
\* CLAChecker.StartFetch: make the channel (capacity 1), start the goroutine.
StartFetch ==
    /\ proc = "running"
    /\ runPc = "setup"
    /\ fetchPc = "off"
    /\ contributorsLoaded' = [made |-> TRUE, buf |-> 0, closed |-> FALSE]
    /\ fetchPc' = "fetch"
    /\ UNCHANGED <<ctxDone, congVars, csvVars, lockVars, proc, github, botVars, canSkipSet, doVars, stable, apiVars,
                   contributors, sentContributors, fetched, installed, signals>>

\* The lists a ContributorFetcher may return: logins, in any order, repeated or not.
FetchLists == UNION { [1..k -> Logins] : k \in 0..MaxFetch }

\* Of these, one list per set of logins.
SetLists == { <<>>, <<"alice">>, <<"bob">>, <<"alice", "bob">> }

\* (faulty variant of AfterFetchErr: no `continue`, the round goes on to the signal)
AfterFetchErrSignals == "send"

\* loadContributors, line 172: where the loop goes on after a failed fetch
\* (continue: the loop's post statement, <-ticker.C, and then the next fetch).
AfterFetchErr == "tick"

\* (faulty variant of AllowlistAfterFetchErr: the allowlist is emptied)
AllowlistAfterFetchErrCleared(old) == {}

\* loadContributors, lines 170-173: c.contributors after a failed fetch; the
\* error is logged and nothing is assigned.
AllowlistAfterFetchErr(old) == old

\* loadContributors, lines 168-173: c.contributorFetcher.LoadContributors(ctx),
\* which returns an error or one of `lists`.
LoadContributors(lists) ==
    /\ proc = "running"
    /\ fetchPc = "fetch"
    /\ \/ /\ fetchPc' = AfterFetchErr
          /\ fetched' = <<>>
          /\ contributors' = AllowlistAfterFetchErr(contributors)
       \/ \E list \in lists :
            /\ fetched' = list
            /\ fetchPc' = "install"
            /\ UNCHANGED contributors
    /\ UNCHANGED <<ctxDone, congVars, csvVars, lockVars, proc, github, botVars, canSkipSet, doVars, stable, apiVars,
                   contributorsLoaded, sentContributors, installed, signals>>

\* loadContributors, lines 174-177: the map built from the fetched slice.
RECURSIVE contributorMapFrom(_, _)
contributorMapFrom(list, i) ==
    IF i > Len(list) THEN {} ELSE {list[i]} \cup contributorMapFrom(list, i + 1)

\* (faulty variant of InstalledMap: the fetched logins are added to the old map)
InstalledMapMerged(old, newMap) == old \cup newMap

\* loadContributors, line 179: the value c.contributors gets.
InstalledMap(old, newMap) == newMap

\* loadContributors, lines 188-192: the select at the end of a round returns
\* when the context is done; otherwise the loop goes on to its post
\* statement, <-ticker.C.
SelectDone == IF ctxDone THEN "done" ELSE "tick"

\* loadContributors, line 181: after the Unlock the first round goes on to
\* the signal, a later one to the select.
AfterUnlock == IF ~sentContributors THEN "send" ELSE "select"

\* loadContributors, lines 174-181: build the map and install it under the lock.
Install ==
    /\ proc = "running"
    /\ fetchPc = "install"
    /\ contributors' = InstalledMap(contributors, contributorMapFrom(fetched, 1))
    /\ installed' = TRUE
    /\ stable' = FALSE
    /\ fetched' = <<>>
    /\ fetchPc' = AfterUnlock
    /\ UNCHANGED <<ctxDone, congVars, csvVars, lockVars, proc, github, botVars, canSkipSet, doVars, apiVars,
                   contributorsLoaded, sentContributors, signals>>

\* loadContributors, line 183: c.contributorsLoaded <- struct{}{}. A send on a
\* closed channel panics; a send on a full channel blocks.
SendLoaded ==
    /\ proc = "running"
    /\ fetchPc = "send"
    /\ IF contributorsLoaded.closed
         THEN /\ proc' = "panicked"
              /\ UNCHANGED <<contributorsLoaded, fetchPc, signals>>
         ELSE /\ contributorsLoaded.buf < 1
              /\ contributorsLoaded' = [contributorsLoaded EXCEPT !.buf = @ + 1]
              /\ signals' = signals + 1
              /\ fetchPc' = "close"
              /\ proc' = proc
    /\ UNCHANGED <<ctxDone, congVars, csvVars, lockVars, github, botVars, canSkipSet, doVars, stable, apiVars,
                   contributors, sentContributors, fetched, installed>>

\* (faulty variant of SentAfterSignal: the flag is never set)
SentNeverSet == FALSE

\* loadContributors, line 185: the value sentContributors gets after the signal.
SentAfterSignal == TRUE

\* loadContributors, lines 184-185: close(c.contributorsLoaded) (closing a
\* closed channel panics); sentContributors = true.
CloseLoaded ==
    /\ proc = "running"
    /\ fetchPc = "close"
    /\ IF contributorsLoaded.closed
         THEN /\ proc' = "panicked"
              /\ UNCHANGED <<contributorsLoaded, fetchPc, sentContributors>>
         ELSE /\ contributorsLoaded' = [contributorsLoaded EXCEPT !.closed = TRUE]
              /\ sentContributors' = SentAfterSignal
              /\ fetchPc' = "select"
              /\ proc' = proc
    /\ UNCHANGED <<ctxDone, congVars, csvVars, lockVars, github, botVars, canSkipSet, doVars, stable, apiVars,
                   contributors, fetched, installed, signals>>

\* loadContributors, lines 188-192: the select on ctx.Done().
SelectCtx ==
    /\ proc = "running"
    /\ fetchPc = "select"
    /\ fetchPc' = SelectDone
    /\ UNCHANGED <<ctxDone, congVars, csvVars, lockVars, proc, github, botVars, canSkipSet, doVars,
                   stable, apiVars, contributorsLoaded, contributors, sentContributors,
                   fetched, installed, signals>>

\* loadContributors, line 168: <-ticker.C, a minute after the last tick; the
\* next round begins.
FetchTick ==
    /\ proc = "running"
    /\ fetchPc = "tick"
    /\ fetchPc' = "fetch"
    /\ UNCHANGED <<ctxDone, congVars, csvVars, lockVars, proc, github, botVars, canSkipSet, doVars,
                   stable, apiVars, contributorsLoaded, contributors, sentContributors,
                   fetched, installed, signals>>

\* The steps of the loadContributors goroutine.
FetchStep(lists) ==
    \/ FetchTick
    \/ LoadContributors(lists)
    \/ Install
    \/ SendLoaded
    \/ CloseLoaded
    \/ SelectCtx

\* ------------------------------------------------------------------ CLAChecker.Do
\* strings.HasSuffix
HasSuffix(s, suffix) ==
    /\ Len(s) >= Len(suffix)
    /\ SubSeq(s, Len(s) - Len(suffix) + 1, Len(s)) = suffix

DocSuffix == <<".", "m", "d">>
SkipLines == 15

\* The deployment's cla.CanSkipCLA.
CanSkipCLA(pr, files) ==
    \/ pr.Additions + pr.Deletions <= SkipLines
    \/ \A i \in 1..Len(files) : HasSuffix(files[i], DocSuffix)

ClaURL == "https://example.com/sign-cla"

\* (faulty variant of postStatus: "unnecessary" does not overwrite sr.State)
postStatusRawState(state) ==
    [Context |-> "cla-bot", State |-> state,
     Description |-> "", TargetURL |-> IF state = "failure" THEN ClaURL ELSE ""]

\* postStatus, lines 200-215: the RepoStatus sent for `state`.
postStatus(state) ==
    CASE state = "failure" ->
           [Context |-> "cla-bot", State |-> "failure",
            Description |-> "Contributor has not signed the CLA", TargetURL |-> ClaURL]
      [] state = "unnecessary" ->
           [Context |-> "cla-bot", State |-> "success",
            Description |-> "Changes do not require CLA submission", TargetURL |-> ""]
      [] state = "success" ->
           [Context |-> "cla-bot", State |-> "success",
            Description |-> "Contributor has signed the CLA", TargetURL |-> ""]

\* Repositories.CreateStatus succeeded: the status is the newest one of
\* commit sha of pull request n.
CreateStatus(n, sha, sr) ==
    statuses' = [statuses EXCEPT ![n][sha] = <<sr>> \o @]

\* Do, lines 268-269: the index of the first status of context "cla-bot", 0 if none.
RECURSIVE FirstClaBot(_, _)
FirstClaBot(sts, i) ==
    IF i > Len(sts) THEN 0
    ELSE IF sts[i].Context = "cla-bot" THEN i
    ELSE FirstClaBot(sts, i + 1)

\* (faulty variant of foundStatus: only the newest status is looked at)
foundStatusNewest(sts) ==
    Len(sts) > 0 /\ sts[1].Context = "cla-bot" /\ sts[1].State = "failure"

\* Do, lines 291-297: some status of context "cla-bot" has state "failure".
foundStatus(sts) ==
    \E i \in 1..Len(sts) : sts[i].Context = "cla-bot" /\ sts[i].State = "failure"

\* Do is called by doTasks: ForeachIssue starts at the lowest issue number.
ClaDoEnter ==
    /\ proc = "running"
    /\ runPc = "inDo"
    /\ tasks[TaskAt(taskIdx)] = "cla"
    /\ claPc = "idle"
    /\ claPc' = "foreach"
    /\ claIdx' = 1
    /\ stable' = TRUE
    /\ UNCHANGED <<ctxDone, congVars, csvVars, lockVars, proc, github, botVars, canSkipSet, fetchVars, apiVars,
                   signedCLAPRs, claOk, apiFail, callVars>>

\* Do returns to doTasks (ForeachIssue ended, or the callback returned an error).
ClaReturn(failed) ==
    /\ DoReturn(failed)
    /\ claPc' = "idle"
    /\ claIdx' = 0
    /\ claOk' = FALSE
    /\ claPr' = NoPr
    /\ claFiles' = <<>>
    /\ claStatuses' = <<>>
    /\ UNCHANGED <<tasks, repo, passLog, errLogged>>

\* The callback returned nil: ForeachIssue goes on with the next issue.
ClaNextIssue ==
    /\ claPc' = "foreach"
    /\ claIdx' = claIdx + 1
    /\ claOk' = FALSE
    /\ claPr' = NoPr
    /\ claFiles' = <<>>
    /\ claStatuses' = <<>>
    /\ UNCHANGED botVars

\* Do, lines 228-244: ForeachIssue ends, or calls the callback on the next
\* issue, which returns nil at once for a missing, non-PR, closed or cached one.
ClaForeach ==
    /\ proc = "running"
    /\ claPc = "foreach"
    /\ IF claIdx > Len(repo)
         THEN /\ ClaReturn(FALSE)
              /\ UNCHANGED signedCLAPRs
         ELSE /\ IF ~IsOpenPR(repo[claIdx]) \/ claIdx \in signedCLAPRs
                   THEN ClaNextIssue
                   ELSE /\ claPc' = "wait"
                        /\ UNCHANGED <<botVars, claIdx, claOk, callVars>>
              /\ UNCHANGED signedCLAPRs
    /\ UNCHANGED <<ctxDone, congVars, csvVars, lockVars, proc, github, canSkipSet, fetchVars, stable, apiVars,
                   apiFail>>

\* Do, line 245: <-c.contributorsLoaded. A receive blocks on a nil channel and
\* on an open, empty one; it takes a buffered value; on a closed, empty channel
\* it returns at once.
ClaWait ==
    /\ proc = "running"
    /\ claPc = "wait"
    /\ contributorsLoaded.made
    /\ contributorsLoaded.buf > 0 \/ contributorsLoaded.closed
    /\ contributorsLoaded' =
         IF contributorsLoaded.buf > 0
           THEN [contributorsLoaded EXCEPT !.buf = @ - 1]
           ELSE contributorsLoaded
    /\ claPc' = "lookup"
    /\ UNCHANGED <<ctxDone, congVars, csvVars, lockVars, proc, github, botVars, canSkipSet, stable, apiVars,
                   contributors, sentContributors, fetched, fetchPc, installed, signals,
                   signedCLAPRs, claIdx, claOk, apiFail, callVars>>

\* Do, lines 246-248: the lookup of the author in c.contributors, under the lock.
ClaLookup ==
    /\ proc = "running"
    /\ claPc = "lookup"
    /\ claOk' = (repo[claIdx].Login \in contributors)
    /\ claPc' = "get"
    /\ UNCHANGED <<ctxDone, congVars, csvVars, lockVars, proc, github, botVars, canSkipSet, fetchVars, stable, apiVars,
                   signedCLAPRs, claIdx, apiFail, callVars>>

\* A GitHub API call of Do returned an error, which the callback returns.
ClaReturnErr(call) ==
    /\ apiFail' = call
    /\ ClaReturn(TRUE)

\* Do, lines 249-252: PullRequests.Get returns the pull request as it is now.
ClaGet(ok) ==
    /\ proc = "running"
    /\ claPc = "get"
    /\ IF ok
         THEN /\ claPr' = [SHA |-> pulls[claIdx].SHA,
                           Additions |-> pulls[claIdx].Diff.Additions,
                           Deletions |-> pulls[claIdx].Diff.Deletions]
              /\ claPc' = "listFiles"
              /\ UNCHANGED <<botVars, claIdx, claOk, apiFail, claFiles, claStatuses>>
         ELSE ClaReturnErr("Get")
    /\ UNCHANGED <<ctxDone, congVars, csvVars, lockVars, proc, github, canSkipSet, fetchVars, stable, apiVars,
                   signedCLAPRs>>

\* Do, lines 253-256: PullRequests.ListFiles returns the files of the pull
\* request as it is now.
ClaListFiles(ok) ==
    /\ proc = "running"
    /\ claPc = "listFiles"
    /\ IF ok
         THEN /\ claFiles' = pulls[claIdx].Diff.Files
              /\ claPc' = "listStatuses"
              /\ UNCHANGED <<botVars, claIdx, claOk, apiFail, claPr, claStatuses>>
         ELSE ClaReturnErr("ListFiles")
    /\ UNCHANGED <<ctxDone, congVars, csvVars, lockVars, proc, github, canSkipSet, fetchVars, stable, apiVars,
                   signedCLAPRs>>

\* Do, lines 257-260: Repositories.ListStatuses returns the statuses of the
\* commit pr.Head.GetSHA().
ClaListStatuses(ok) ==
    /\ proc = "running"
    /\ claPc = "listStatuses"
    /\ IF ok
         THEN /\ claStatuses' = statuses[claIdx][claPr.SHA]
              /\ claPc' = "post"
              /\ UNCHANGED <<botVars, claIdx, claOk, apiFail, claPr, claFiles>>
         ELSE ClaReturnErr("ListStatuses")
    /\ UNCHANGED <<ctxDone, congVars, csvVars, lockVars, proc, github, canSkipSet, fetchVars, stable, apiVars,
                   signedCLAPRs>>

\* Do, line 261
canSkipCLA(pr, files) == canSkipSet /\ CanSkipCLA(pr, files)

\* Do, lines 264-267
postStatusState(skip) == IF skip THEN "unnecessary" ELSE "success"

\* Do, lines 261-307: the callback decides on what the three calls returned
\* and, if it posts, Repositories.CreateStatus returns for commit
\* *pr.Head.SHA (ok: without an error).
ClaPostStatus(ok) ==
    LET n == claIdx
        sts == claStatuses
        skip == canSkipCLA(claPr, claFiles)
        first == FirstClaBot(sts, 1)
    IN
    /\ proc = "running"
    /\ claPc = "post"
    /\ IF claOk \/ skip
         THEN IF first # 0 /\ sts[first].State = "success"
                THEN \* lines 271-273: already passing; remember the PR
                     /\ signedCLAPRs' = signedCLAPRs \cup {n}
                     /\ ClaNextIssue
                     /\ UNCHANGED <<proc, statuses, apiFail>>
                ELSE IF ~ok
                THEN \* lines 275-277, 284-286: return err
                     /\ ClaReturnErr("CreateStatus")
                     /\ UNCHANGED <<proc, statuses, signedCLAPRs>>
                ELSE \* lines 275-289: post the passing status
                     /\ CreateStatus(n, claPr.SHA, postStatus(postStatusState(skip)))
                     /\ ClaNextIssue
                     /\ UNCHANGED <<proc, signedCLAPRs, apiFail>>
         ELSE IF foundStatus(sts)
                THEN \* lines 298-300
                     /\ ClaNextIssue
                     /\ UNCHANGED <<proc, statuses, signedCLAPRs, apiFail>>
                ELSE IF ~ok
                THEN \* lines 302-305: log.Fatal(err)
                     /\ apiFail' = "CreateStatus"
                     /\ proc' = "exited"
                     /\ UNCHANGED <<botVars, statuses, signedCLAPRs,
                                    claPc, claIdx, claOk, callVars>>
                ELSE \* lines 302-307: post the failing status
                     /\ CreateStatus(n, claPr.SHA, postStatus("failure"))
                     /\ ClaNextIssue
                     /\ UNCHANGED <<proc, signedCLAPRs, apiFail>>
    /\ UNCHANGED <<ctxDone, congVars, csvVars, lockVars, github, canSkipSet, fetchVars, stable, pulls>>

\* Do, lines 249-307: the GitHub API calls of the callback, one call a step.
ClaCalls ==
    \E ok \in BOOLEAN :
        \/ ClaGet(ok)
        \/ ClaListFiles(ok)
        \/ ClaListStatuses(ok)
        \/ ClaPostStatus(ok)

\* The steps of CLAChecker.Do, run by the Run goroutine inside doTasks.
ClaStep ==
    \/ ClaDoEnter
    \/ ClaForeach
    \/ ClaWait
    \/ ClaLookup
    \/ ClaCalls

\* The steps of the Run goroutine.
RunLoopStep ==
    \/ RunInitCorpus
    \/ DoTasksLock
    \/ DoTasksLoop
    \/ AfterTasks
    \/ Sync
    \/ RunReinitCorpus
    \/ Sleep
    \/ Tick

RunStep == RunLoopStep \/ StubDo

Next ==
    \/ \E l \in Logins : OpenPR(l)
    \/ \E n \in 1..MaxIssues : CloseIssue(n)
    \/ Cancel
    \/ RegisterTask("stub")
    \/ RunStart
    \/ RunStep

Spec == Init /\ [][Next]_vars

\* The Run goroutine is scheduled as long as it can take a step.
FairSpec == Init /\ [][Next]_vars /\ WF_vars(RunStep)

\* ------------------------------------------------------------------ SpecCLA
\* main: cla.StartFetch(ctx); bot.RegisterTask(cla); bot.Run(ctx).
NextCLA ==
    \/ StartFetch
    \/ (fetchPc # "off" /\ tasks = <<>> /\ RegisterTask("cla"))
    \/ (tasks # <<>> /\ RunStart)
    \/ RunLoopStep
    \/ ClaStep
    \/ FetchStep(SetLists)
    \/ \E n \in 1..MaxIssues, d \in Diffs : PushCommit(n, d)

SpecCLA == InitCLA /\ [][NextCLA]_vars

\* ------------------------------------------------------------------ SpecExempt
\* The diffs around the deployment's line limit: 15 and 16 changed lines, of
\* no file, of documentation only, of code only, and of both.
ExemptDiffs ==
    { [Additions |-> a, Deletions |-> 8, Files |-> f] :
        a \in {7, 8}, f \in { <<>>, <<FileDoc>>, <<FileGo>>, <<FileDoc, FileGo>> } }

\* A Bot and a CLAChecker, with CanSkipCLA set or left nil, on a repository
\* whose one issue is an open pull request of alice.
InitExempt ==
    /\ ctxDone = FALSE
    /\ proc = "running"
    /\ github = << Issue("alice", TRUE) >>
    /\ InitBot
    /\ InitChecker
    /\ InitCongratulator
    /\ InitNoCSV
    /\ canSkipSet \in BOOLEAN
    /\ pulls \in [{1} -> {[SHA |-> 1, Diff |-> d] : d \in ExemptDiffs}]
    /\ statuses = <<FirstHead>>

\* main, as in SpecCLA; the head commits pushed carry the diffs above.
NextExempt ==
    \/ StartFetch
    \/ (fetchPc # "off" /\ tasks = <<>> /\ RegisterTask("cla"))
    \/ (tasks # <<>> /\ RunStart)
    \/ RunLoopStep
    \/ ClaStep
    \/ FetchStep(SetLists)
    \/ \E d \in ExemptDiffs : PushCommit(1, d)

SpecExempt == InitExempt /\ [][NextExempt]_vars

\* ------------------------------------------------------------------ SpecAllExempt
\* The diffs above that the deployment's predicate exempts.
OnlyExemptDiffs == { d \in ExemptDiffs : CanSkipCLA(d, d.Files) }

\* As SpecExempt, with CanSkipCLA set and every head commit of the pull
\* request exempt.
InitAllExempt ==
    /\ InitExempt
    /\ canSkipSet
    /\ pulls[1].Diff \in OnlyExemptDiffs

NextAllExempt ==
    \/ StartFetch
    \/ (fetchPc # "off" /\ tasks = <<>> /\ RegisterTask("cla"))
    \/ (tasks # <<>> /\ RunStart)
    \/ RunLoopStep
    \/ ClaStep
    \/ FetchStep(SetLists)
    \/ \E d \in OnlyExemptDiffs : PushCommit(1, d)

SpecAllExempt == InitAllExempt /\ [][NextAllExempt]_vars

\* ------------------------------------------------------------------ SpecWait
\* A Bot, a CLAChecker and one more task, on a repository whose one issue is
\* an open pull request of alice.
InitWait ==
    /\ ctxDone = FALSE
    /\ proc = "running"
    /\ github = << Issue("alice", TRUE) >>
    /\ InitBot
    /\ InitChecker
    /\ InitCongratulator
    /\ InitNoCSV
    /\ canSkipSet = FALSE
    /\ pulls = << [SHA |-> 1, Diff |-> DiffCode] >>
    /\ statuses = <<FirstHead>>

\* The steps of the Run goroutine, those of the tasks it runs included.
RunWaitStep == RunLoopStep \/ ClaStep \/ StubDo

\* main: cla.StartFetch(ctx); bot.RegisterTask(cla); bot.RegisterTask(another
\* task); bot.Run(ctx); the context may be canceled while Do waits for the
\* allowlist.
NextWait ==
    \/ StartFetch
    \/ (fetchPc # "off" /\ tasks = <<>> /\ RegisterTask("cla"))
    \/ (tasks = <<"cla">> /\ RegisterTask("stub"))
    \/ (Len(tasks) = 2 /\ RunStart)
    \/ RunWaitStep
    \/ FetchStep(SetLists)
    \/ (claPc = "wait" /\ Cancel)

SpecWait == InitWait /\ [][NextWait]_vars

\* The Run goroutine and the loadContributors goroutine are each scheduled
\* as long as they can take a step.
FairSpecWait ==
    InitWait /\ [][NextWait]_vars /\ WF_vars(RunWaitStep) /\ WF_vars(FetchStep(SetLists))

\* ------------------------------------------------------------------ SpecLock
\* The installation of a fetched list and the lookup of an author, statement
\* by statement: the steps that Install and ClaLookup take as one.

\* loadContributors, line 174: contributorMap := make(map[string]bool, ...)
MakeContributorMap ==
    /\ proc = "running"
    /\ fetchPc = "install"
    /\ contributorMap' = {}
    /\ buildIdx' = 1
    /\ fetchPc' = "build"
    /\ UNCHANGED <<ctxDone, congVars, csvVars, proc, github, botVars, canSkipSet, doVars,
                   stable, apiVars, contributorsLoaded, contributors, sentContributors,
                   fetched, installed, signals, contributorMu>>

\* (faulty variant of AllowlistDuringBuild: the map is filled in place)
AllowlistFilledInPlace(old, partial) == partial

\* loadContributors, lines 175-177: c.contributors while the loop fills the
\* local contributorMap; it is not touched.
AllowlistDuringBuild(old, partial) == old

\* loadContributors, lines 175-177: one round of the loop,
\* contributorMap[contributors[i]] = true, or its end.
BuildContributorMap ==
    /\ proc = "running"
    /\ fetchPc = "build"
    /\ IF buildIdx > Len(fetched)
         THEN /\ fetchPc' = "lock"
              /\ UNCHANGED <<contributorMap, buildIdx, contributors>>
         ELSE /\ contributorMap' = contributorMap \cup {fetched[buildIdx]}
              /\ buildIdx' = buildIdx + 1
              /\ contributors' = AllowlistDuringBuild(contributors, contributorMap')
              /\ UNCHANGED fetchPc
    /\ UNCHANGED <<ctxDone, congVars, csvVars, proc, github, botVars, canSkipSet, doVars,
                   stable, apiVars, contributorsLoaded, sentContributors,
                   fetched, installed, signals, contributorMu>>

\* loadContributors, line 178: c.contributorMu.Lock() blocks while the lock is held.
LockForInstall ==
    /\ proc = "running"
    /\ fetchPc = "lock"
    /\ contributorMu = ""
    /\ contributorMu' = "loadContributors"
    /\ fetchPc' = "assign"
    /\ UNCHANGED <<ctxDone, congVars, csvVars, proc, github, botVars, canSkipSet, doVars,
                   stable, apiVars, contributorsLoaded, contributors, sentContributors,
                   fetched, installed, signals, contributorMap, buildIdx>>

\* loadContributors, line 179: c.contributors = contributorMap
AssignContributors ==
    /\ proc = "running"
    /\ fetchPc = "assign"
    /\ contributors' = InstalledMap(contributors, contributorMap)
    /\ installed' = TRUE
    /\ stable' = FALSE
    /\ fetchPc' = "unlock"
    /\ UNCHANGED <<ctxDone, congVars, csvVars, proc, github, botVars, canSkipSet, doVars,
                   apiVars, contributorsLoaded, sentContributors, fetched, signals, lockVars>>

\* loadContributors, lines 180-181: c.contributorMu.Unlock(); the model
\* forgets the locals of the round, which are not read again.
UnlockAfterInstall ==
    /\ proc = "running"
    /\ fetchPc = "unlock"
    /\ contributorMu' = ""
    /\ contributorMap' = {}
    /\ buildIdx' = 0
    /\ fetched' = <<>>
    /\ fetchPc' = AfterUnlock
    /\ UNCHANGED <<ctxDone, congVars, csvVars, proc, github, botVars, canSkipSet, doVars,
                   stable, apiVars, contributorsLoaded, contributors, sentContributors,
                   installed, signals>>

\* The steps of the loadContributors goroutine, statement by statement.
FetchLockStep ==
    \/ FetchTick
    \/ LoadContributors(SetLists)
    \/ MakeContributorMap
    \/ BuildContributorMap
    \/ LockForInstall
    \/ AssignContributors
    \/ UnlockAfterInstall
    \/ SendLoaded
    \/ CloseLoaded
    \/ SelectCtx

\* Do, line 246: c.contributorMu.Lock() blocks while the lock is held.
LockForLookup ==
    /\ proc = "running"
    /\ claPc = "lookup"
    /\ contributorMu = ""
    /\ contributorMu' = "Do"
    /\ claPc' = "locked"
    /\ UNCHANGED <<ctxDone, congVars, csvVars, proc, github, botVars, canSkipSet, fetchVars,
                   stable, apiVars, signedCLAPRs, claIdx, claOk, apiFail, callVars,
                   contributorMap, buildIdx>>

\* Do, line 247: _, ok := c.contributors[gh.User.Login]
LookupLocked ==
    /\ proc = "running"
    /\ claPc = "locked"
    /\ claOk' = (repo[claIdx].Login \in contributors)
    /\ claPc' = "unlock"
    /\ UNCHANGED <<ctxDone, congVars, csvVars, proc, github, botVars, canSkipSet, fetchVars,
                   stable, apiVars, signedCLAPRs, claIdx, apiFail, callVars, lockVars>>

\* Do, line 248: c.contributorMu.Unlock(); the API calls follow.
UnlockAfterLookup ==
    /\ proc = "running"
    /\ claPc = "unlock"
    /\ contributorMu' = ""
    /\ claPc' = "get"
    /\ UNCHANGED <<ctxDone, congVars, csvVars, proc, github, botVars, canSkipSet, fetchVars,
                   stable, apiVars, signedCLAPRs, claIdx, claOk, apiFail, callVars,
                   contributorMap, buildIdx>>

\* The steps of CLAChecker.Do, statement by statement.
ClaLockStep ==
    \/ ClaDoEnter
    \/ ClaForeach
    \/ ClaWait
    \/ LockForLookup
    \/ LookupLocked
    \/ UnlockAfterLookup
    \/ ClaCalls

\* A Bot and a CLAChecker on a repository of two open pull requests, of
\* alice and of bob.
InitLock ==
    /\ ctxDone = FALSE
    /\ proc = "running"
    /\ github = << Issue("alice", TRUE), Issue("bob", TRUE) >>
    /\ InitBot
    /\ InitChecker
    /\ InitCongratulator
    /\ InitNoCSV
    /\ canSkipSet = FALSE
    /\ pulls = << [SHA |-> 1, Diff |-> DiffCode], [SHA |-> 1, Diff |-> DiffCode] >>
    /\ statuses = InitStatuses

\* main: cla.StartFetch(ctx); bot.RegisterTask(cla); bot.Run(ctx).
NextLock ==
    \/ StartFetch
    \/ (fetchPc # "off" /\ tasks = <<>> /\ RegisterTask("cla"))
    \/ (tasks # <<>> /\ RunStart)
    \/ RunLoopStep
    \/ ClaLockStep
    \/ FetchLockStep

SpecLock == InitLock /\ [][NextLock]_vars

\* ------------------------------------------------------------------ SpecFetch
\* The allowlist refresher alone: StartFetch, the loadContributors goroutine
\* with every list a fetch may return, and the cancellation of its context.
NextFetch ==
    \/ StartFetch
    \/ FetchStep(FetchLists)
    \/ Cancel

SpecFetch == Init /\ [][NextFetch]_vars

\* The loadContributors goroutine is scheduled as long as it can take a step.
FairSpecFetch == Init /\ [][NextFetch]_vars /\ WF_vars(FetchStep(FetchLists))

\* ------------------------------------------------------------------ Congratulator.Do
\* The label Congratulator puts on a pull request it has welcomed.
NewContributorLabel == "new-contributor"

\* (faulty variant of hasNewContributorLabel: the labels are not looked at)
hasNoLabelCheck(gh) == FALSE

\* Do, lines 101-107
hasNewContributorLabel(gh) == \E label \in gh.Labels : label = NewContributorLabel

\* The map m with key k set to v.
MapPut(m, k, v) == [x \in DOMAIN m \cup {k} |-> IF x = k THEN v ELSE m[x]]

\* delete(m, k)
MapDelete(m, k) == [x \in DOMAIN m \ {k} |-> m[x]]

\* (faulty variant of PrsAfterRepeat: the first pull request stays in prs)
PrsAfterRepeatKept(m, username) == m

\* Do, line 89: prs after a second pull request of username was met.
PrsAfterRepeat(m, username) == MapDelete(m, username)

\* Do is called by doTasks: prs is made, ForeachIssue starts at the lowest
\* issue number.
CongDoEnter ==
    /\ proc = "running"
    /\ runPc = "inDo"
    /\ tasks[TaskAt(taskIdx)] = "congrats"
    /\ congPc = "idle"
    /\ prs' = <<>>
    /\ congIdx' = 1
    /\ congPc' = "foreach"
    /\ calls' = <<>>
    /\ knownBefore' = knownContributors
    /\ UNCHANGED <<ctxDone, csvVars, lockVars, proc, github, botVars, claVars, knownContributors,
                   welcomed, congUser>>

\* Do, lines 75-94: ForeachIssue ends (its result is nil: the callback never
\* returns an error), or calls the callback on the next issue.
CongForeach ==
    /\ proc = "running"
    /\ congPc = "foreach"
    /\ IF congIdx > Len(repo)
         THEN /\ congPc' = "range"
              /\ UNCHANGED <<congIdx, knownContributors, prs>>
         ELSE LET gh == repo[congIdx]
                  username == gh.Login
              IN /\ congIdx' = congIdx + 1
                 /\ congPc' = "foreach"
                 /\ IF gh.NotExist \/ ~gh.PullRequest
                      THEN UNCHANGED <<knownContributors, prs>>
                    ELSE IF username \in knownContributors
                      THEN UNCHANGED <<knownContributors, prs>>
                    ELSE IF username \in DOMAIN prs
                      THEN /\ knownContributors' = knownContributors \cup {username}
                           /\ prs' = PrsAfterRepeat(prs, username)
                      ELSE /\ prs' = MapPut(prs, username, congIdx)
                           /\ UNCHANGED knownContributors
    /\ UNCHANGED <<ctxDone, csvVars, lockVars, proc, github, botVars, claVars, calls, knownBefore,
                   welcomed, congUser>>

\* What may fail in the body of the range loop before the comment, in call
\* order ("none": nothing).
CongFailures == {"none", "Execute", "AddLabels"}

\* Do returns to doTasks.
CongReturn(failed) ==
    /\ DoReturn(failed)
    /\ congPc' = "idle"
    /\ congIdx' = 0
    /\ congUser' = ""
    /\ prs' = <<>>
    /\ UNCHANGED <<tasks, repo, passLog, errLogged>>

\* Issues.AddLabelsToIssue succeeded: the pull request carries the label on GitHub.
AddLabelsToIssue(n, label) ==
    github' = [github EXCEPT ![n].Labels = @ \cup {label}]

\* (faulty variant of KnownAfterComment: the author is not remembered)
KnownAfterCommentForgotten(known, username) == known

\* Do, line 134: c.knownContributors after the comment was posted.
KnownAfterComment(known, username) == known \cup {username}

\* (faulty variant of IsClosed: a closed pull request is welcomed as well)
ClosedIgnored(ghIssue) == FALSE

\* Do, line 97
IsClosed(ghIssue) == ghIssue.Closed

\* Do, lines 96-126 and 136: the range loop over prs, whose order Go leaves
\* open. prs holds the entries the loop has not finished with. With none
\* left, Do returns ForeachIssue's result; otherwise the body runs for the
\* entry of username, up to the return of Issues.AddLabelsToIssue. `fail` is
\* what fails ("none": nothing).
CongRange(username, fail) ==
    /\ proc = "running"
    /\ congPc = "range"
    /\ IF DOMAIN prs = {}
         THEN /\ username = "alice"
              /\ fail = "none"
              /\ CongReturn(FALSE)
              /\ UNCHANGED <<github, knownContributors, calls, welcomed>>
         ELSE /\ username \in DOMAIN prs
              /\ LET n == prs[username]
                     ghIssue == repo[n]
                 IN IF IsClosed(ghIssue) \/ hasNewContributorLabel(ghIssue)
                      THEN \* lines 97-111: not to be welcomed; continue
                           /\ fail = "none"
                           /\ knownContributors' = knownContributors \cup {username}
                           /\ prs' = MapDelete(prs, username)
                           /\ UNCHANGED <<botVars, github, calls, congPc, congIdx, congUser,
                                          welcomed>>
                    ELSE IF fail \in {"Execute", "AddLabels"}
                      THEN \* lines 116-126: return err
                           /\ CongReturn(TRUE)
                           /\ UNCHANGED <<github, knownContributors, calls, welcomed>>
                      ELSE \* lines 122-129: the label is on; the comment is next
                           /\ AddLabelsToIssue(n, NewContributorLabel)
                           /\ calls' = Append(calls, [call |-> "AddLabels", n |-> n])
                           /\ congPc' = "comment"
                           /\ congUser' = username
                           /\ UNCHANGED <<botVars, knownContributors, prs, congIdx, welcomed>>
    /\ UNCHANGED <<ctxDone, csvVars, lockVars, proc, claVars, knownBefore>>

\* Do, lines 130-134: Issues.CreateComment returns; on an error Do returns
\* it, otherwise the author is known and the loop goes on.
CongComment(ok) ==
    /\ proc = "running"
    /\ congPc = "comment"
    /\ IF ok
         THEN /\ calls' = Append(calls, [call |-> "CreateComment", n |-> prs[congUser]])
              /\ knownContributors' = KnownAfterComment(knownContributors, congUser)
              /\ welcomed' = welcomed \cup {congUser}
              /\ prs' = MapDelete(prs, congUser)
              /\ congPc' = "range"
              /\ congUser' = ""
              /\ UNCHANGED <<botVars, congIdx>>
         ELSE /\ CongReturn(TRUE)
              /\ UNCHANGED <<knownContributors, calls, welcomed>>
    /\ UNCHANGED <<ctxDone, csvVars, lockVars, proc, github, claVars, knownBefore>>

\* The steps of Congratulator.Do, run by the Run goroutine inside doTasks.
CongStep ==
    \/ CongDoEnter
    \/ CongForeach
    \/ \E username \in Logins, fail \in CongFailures : CongRange(username, fail)
    \/ \E ok \in BOOLEAN : CongComment(ok)

\* ------------------------------------------------------------------ SpecCongrats
\* The issues of a repository the Congratulator looks at: per login an open
\* pull request, one that carries the label already, a closed one, a deleted
\* (tombstoned) one and a plain issue.
CongIssueKinds ==
    UNION { { Issue(l, TRUE),
              [Issue(l, TRUE) EXCEPT !.Labels = {NewContributorLabel}],
              [Issue(l, TRUE) EXCEPT !.Closed = TRUE],
              [Issue(l, TRUE) EXCEPT !.NotExist = TRUE],
              Issue(l, FALSE) } : l \in Logins }

\* A Bot and a Congratulator on a repository of up to MaxIssues issues.
InitCongrats ==
    /\ ctxDone = FALSE
    /\ proc = "running"
    /\ github \in UNION { [1..k -> CongIssueKinds] : k \in 0..MaxIssues }
    /\ InitBot
    /\ InitChecker
    /\ InitCongratulator
    /\ InitNoCSV
    /\ canSkipSet = FALSE
    /\ pulls = <<>>
    /\ statuses = <<>>

\* bot.RegisterTask(congratulator); bot.Run(ctx); pull requests are opened
\* while the bot runs.
NextCongrats ==
    \/ (tasks = <<>> /\ RegisterTask("congrats"))
    \/ (tasks # <<>> /\ RunStart)
    \/ RunLoopStep
    \/ CongStep
    \/ \E l \in Logins : OpenPR(l)

SpecCongrats == InitCongrats /\ [][NextCongrats]_vars

\* ------------------------------------------------------------------ SpecRelabel
\* Someone takes a label off an issue on GitHub: from the next Sync on the
\* snapshot shows the issue without it.
RemoveLabel(n, label) ==
    /\ proc = "running"
    /\ n \in 1..Len(github)
    /\ label \in github[n].Labels
    /\ github' = [github EXCEPT ![n].Labels = @ \ {label}]
    /\ UNCHANGED <<ctxDone, congVars, csvVars, lockVars, proc, botVars, claVars>>

\* As SpecCongrats, on a repository whose labels may be taken off again.
NextRelabel ==
    \/ (tasks = <<>> /\ RegisterTask("congrats"))
    \/ (tasks # <<>> /\ RunStart)
    \/ RunLoopStep
    \/ CongStep
    \/ \E l \in Logins : OpenPR(l)
    \/ \E n \in 1..MaxIssues : RemoveLabel(n, NewContributorLabel)

SpecRelabel == InitCongrats /\ [][NextRelabel]_vars

\* ------------------------------------------------------------------ getUsernames
\* The characters of a CSV file: two letters that differ in case only, and
\* the characters encoding/csv and strings.TrimSpace treat specially.
Comma == ","
Quote == "\""
NL == "\n"
Space == " "
CsvChars == {"u", "U", Comma, Quote, NL, Space}

\* length of the file given to getUsernames
MaxCsvLen == 6

\* The files and column names getUsernames is called with.
CsvFiles == UNION { [1..k -> CsvChars] : k \in 0..MaxCsvLen }
CsvColumns == { <<>>, <<"u">>, <<"U", "u">> }

\* (faulty variant of ToLower: the case is kept)
KeepCase(str) == str

\* unicode.ToLower on the characters of the model: the upper-case letters
\* are G, H and U.
LowerChar(c) ==
    CASE c = "U" -> "u"
      [] c = "G" -> "g"
      [] c = "H" -> "h"
      [] OTHER -> c

\* strings.ToLower
ToLower(str) == [i \in 1..Len(str) |-> LowerChar(str[i])]

\* strings.Contains
Contains(str, substr) ==
    \E i \in 0..(Len(str) - Len(substr)) : SubSeq(str, i + 1, i + Len(substr)) = substr

\* strings.TrimSpace
RECURSIVE TrimSpace(_)
TrimSpace(str) ==
    IF str = <<>> THEN str
    ELSE IF str[1] \in {Space, NL} THEN TrimSpace(Tail(str))
    ELSE IF str[Len(str)] \in {Space, NL} THEN TrimSpace(SubSeq(str, 1, Len(str) - 1))
    ELSE str

\* The first position at or after i where file holds one of chars, and
\* Len(file) + 1 if there is none.
RECURSIVE IndexAny(_, _, _)
IndexAny(file, chars, i) ==
    IF i > Len(file) THEN Len(file) + 1
    ELSE IF file[i] \in chars THEN i
    ELSE IndexAny(file, chars, i + 1)

\* encoding/csv, Reader.readRecord from the start of field i of a record: the
\* fields of the rest of the record. Result: [err, fields, next], next being
\* the position after the record.
\*   A field that does not begin with a quote ends at the next comma or at
\* the end of the line; a quote in it is an error (ErrBareQuote).
\*   A quoted field runs to its closing quote, over line ends; "" in it is a
\* quote; the closing quote is followed by a comma or by the end of the line,
\* anything else (and the end of the file before the closing quote) is an
\* error (ErrQuote). `quoted` tells that position i is inside a quoted field
\* whose text so far is acc.
RECURSIVE ReadFields(_, _, _, _, _)
ReadFields(file, i, quoted, acc, fields) ==
    IF ~quoted
      THEN IF i <= Len(file) /\ file[i] = Quote
             THEN ReadFields(file, i + 1, TRUE, <<>>, fields)
             ELSE LET j == IndexAny(file, {Comma, NL}, i)
                      field == SubSeq(file, i, j - 1)
                  IN IF \E k \in 1..Len(field) : field[k] = Quote
                       THEN [err |-> TRUE, fields |-> <<>>, next |-> j]
                     ELSE IF j <= Len(file) /\ file[j] = Comma
                       THEN ReadFields(file, j + 1, FALSE, <<>>, Append(fields, field))
                       ELSE [err |-> FALSE, fields |-> Append(fields, field), next |-> j + 1]
      ELSE LET j == IndexAny(file, {Quote}, i)
               text == acc \o SubSeq(file, i, j - 1)
           IN IF j > Len(file)
                THEN [err |-> TRUE, fields |-> <<>>, next |-> j]
              ELSE IF j + 1 <= Len(file) /\ file[j + 1] = Quote
                THEN ReadFields(file, j + 2, TRUE, Append(text, Quote), fields)
              ELSE IF j + 1 <= Len(file) /\ file[j + 1] = Comma
                THEN ReadFields(file, j + 2, FALSE, <<>>, Append(fields, text))
              ELSE IF j + 1 > Len(file) \/ file[j + 1] = NL
                THEN [err |-> FALSE, fields |-> Append(fields, text), next |-> j + 2]
                ELSE [err |-> TRUE, fields |-> <<>>, next |-> j]

\* The position of the first line at or after position i that is not empty.
RECURSIVE SkipEmptyLines(_, _)
SkipEmptyLines(file, i) ==
    IF i <= Len(file) /\ file[i] = NL THEN SkipEmptyLines(file, i + 1) ELSE i

\* encoding/csv, Reader.Read at position i: empty lines are skipped; at the
\* end of the file the result is io.EOF; a record whose number of fields is
\* not that of the first record (want > 0) is an error (ErrFieldCount).
\* Result: [eof, err, fields, next].
Read(file, i, want) ==
    LET start == SkipEmptyLines(file, i)
        rec == ReadFields(file, start, FALSE, <<>>, <<>>)
    IN IF start > Len(file)
         THEN [eof |-> TRUE, err |-> TRUE, fields |-> <<>>, next |-> start]
         ELSE [eof |-> FALSE,
               err |-> rec.err \/ (want > 0 /\ Len(rec.fields) # want),
               fields |-> rec.fields,
               next |-> rec.next]

\* encoding/csv, Reader.ReadAll from position i: the records up to the end of
\* the file, or the first error. Result: [err, records].
RECURSIVE ReadAll(_, _, _, _)
ReadAll(file, i, want, records) ==
    LET rec == Read(file, i, want)
    IN IF rec.eof THEN [err |-> FALSE, records |-> records]
       ELSE IF rec.err THEN [err |-> TRUE, records |-> <<>>]
       ELSE ReadAll(file, rec.next, want, Append(records, rec.fields))

\* getUsernames, lines 390-398: the index of the first cell of record that
\* contains lowerColumnName when lowered; 0 (the code's -1) if none does.
RECURSIVE FindColumn(_, _, _)
FindColumn(record, lowerColumnName, i) ==
    IF i > Len(record) THEN 0
    ELSE IF Contains(ToLower(record[i]), lowerColumnName) THEN i
    ELSE FindColumn(record, lowerColumnName, i + 1)

\* getUsernames, lines 406-413: the trimmed, non-empty cells of the column.
RECURSIVE CollectEmails(_, _, _)
CollectEmails(records, column, i) ==
    IF i > Len(records) THEN <<>>
    ELSE LET email == TrimSpace(records[i][column])
         IN (IF email = <<>> THEN <<>> ELSE <<email>>)
              \o CollectEmails(records, column, i + 1)

\* getUsernames(file, columnName): [err, values]; with err the values are nil.
getUsernames(file, columnName) ==
    LET header == Read(file, 1, 0)
        failed == [err |-> TRUE, values |-> <<>>]
    IN IF header.err THEN failed
       ELSE LET column == FindColumn(header.fields, ToLower(columnName), 1)
                rest == ReadAll(file, header.next, Len(header.fields), <<>>)
            IN IF column = 0 THEN failed
               ELSE IF rest.err THEN failed
               ELSE [err |-> FALSE, values |-> CollectEmails(rest.records, column, 1)]

\* ------------------------------------------------------------------ SpecCSV
\* getUsernames is about to be called on a file and a column name.
InitCSV ==
    /\ ctxDone = FALSE
    /\ proc = "running"
    /\ github = <<>>
    /\ InitBot
    /\ InitChecker
    /\ InitCongratulator
    /\ canSkipSet = FALSE
    /\ pulls = <<>>
    /\ statuses = <<>>
    /\ csvFile \in CsvFiles
    /\ csvColumn \in CsvColumns
    /\ csvPc = "call"
    /\ usernames = [err |-> FALSE, values |-> <<>>]

\* The call of getUsernames(csvFile, csvColumn) returns.
GetUsernames ==
    /\ csvPc = "call"
    /\ usernames' = getUsernames(csvFile, csvColumn)
    /\ csvPc' = "returned"
    /\ UNCHANGED <<ctxDone, proc, github, botVars, claVars, congVars, lockVars,
                   csvFile, csvColumn>>

NextCSV == GetUsernames

SpecCSV == InitCSV /\ [][NextCSV]_vars

\* ------------------------------------------------------------------ SpreadsheetFetcher
\* "GitHub Username": the column name NewSpreadsheetFetcher sets and
\* LoadContributors falls back to.
DefaultColumnName ==
    <<"G", "i", "t", "H", "u", "b", Space, "U", "s", "e", "r", "n", "a", "m", "e">>

\* LoadContributors, lines 427-430: the local columnName.
defaultedColumnName(ColumnName) ==
    IF ColumnName = <<>> THEN DefaultColumnName ELSE ColumnName

\* Two sheets whose second column is headed by the default name, in the
\* case of the constant and in that of the package's test file.
SheetGitHub ==
    <<"u", Comma>> \o DefaultColumnName \o <<NL, "U", Comma, "u">>
SheetGithub ==
    <<"u", Comma>> \o [DefaultColumnName EXCEPT ![4] = "h"] \o <<NL, "U", Comma, "u">>

\* The bodies downloadCSV may return and the values of s.ColumnName.
SheetBodies == CsvFiles \cup {SheetGitHub, SheetGithub}
SheetColumns == CsvColumns \cup {DefaultColumnName}

\* LoadContributors is about to be called on a SpreadsheetFetcher whose
\* sheet has the body csvFile and whose ColumnName is csvColumn.
InitSheet ==
    /\ ctxDone = FALSE
    /\ proc = "running"
    /\ github = <<>>
    /\ InitBot
    /\ InitChecker
    /\ InitCongratulator
    /\ canSkipSet = FALSE
    /\ pulls = <<>>
    /\ statuses = <<>>
    /\ csvFile \in SheetBodies
    /\ csvColumn \in SheetColumns
    /\ csvPc = "load"
    /\ usernames = [err |-> FALSE, values |-> <<>>]

\* SpreadsheetFetcher.LoadContributors, lines 422-436: downloadCSV fails, or
\* returns the body; the local columnName is computed (lines 427-430);
\* getUsernames is called with s.ColumnName (line 431).
SheetLoadContributors ==
    /\ csvPc = "load"
    /\ \/ /\ usernames' = [err |-> TRUE, values |-> <<>>]
          /\ csvPc' = "neterr"
       \/ LET body == csvFile
              columnName == defaultedColumnName(csvColumn)
          IN /\ usernames' = getUsernames(body, csvColumn)
             /\ csvPc' = "loaded"
    /\ UNCHANGED <<ctxDone, proc, github, botVars, claVars, congVars, lockVars,
                   csvFile, csvColumn>>

NextSheet == SheetLoadContributors

SpecSheet == InitSheet /\ [][NextSheet]_vars

\* ================================================================== claims
\* ------------------------------------------------------------------ Bot (Spec)
\* The task pass is over: doTasks has returned and Run has logged its error.
PassOver == runPc = "sync"

\* C1: in one task pass a task whose Do returns an error does not block the
\* tasks registered after it: the error is logged, and every registered
\* task's Do has been invoked when the pass is over.
C1_ErrorDoesNotBlockLaterTasks ==
    PassOver =>
        /\ Len(passLog) = Len(tasks)
        /\ errLogged <=> (\E k \in 1..Len(passRes) : passRes[k] = "err")

\* C2: Run blocks until its context is canceled: it does not return while the
\* context is live, and once the context is canceled Run eventually returns
\* (the end of the process is counted as a return here).
C2_RunReturnsOnCancel ==
    /\ [](runPc = "returned" => ctxDone)
    /\ ctxDone ~> (runPc = "returned" \/ proc # "running")

\* C3: within one task pass the Do calls happen in registration order and one
\* at a time, and the snapshot is the same from the first Do of the pass to
\* the last: every Do got the snapshot the first one got, and b.repo is that
\* snapshot for as long as doTasks holds taskMu.
C3_PassInOrderOnOneSnapshot ==
    /\ Cardinality(inDo) <= 1
    /\ inDo # {} => taskMu
    /\ \A k \in 1..Len(passLog) :
         /\ passLog[k].task = k
         /\ passLog[k].repo = passLog[1].repo
    /\ (taskMu /\ passLog # <<>>) => repo = passLog[1].repo

\* A pass has called the Do of three tasks while GitHub has moved on from the
\* snapshot: a refresh between the calls would have changed what they see.
C3_Witness ==
    /\ Len(passLog) = 3
    /\ inDo = {3}
    /\ github # repo

\* ------------------------------------------------------------------ CLAChecker (SpecCLA)
\* The newest status of context "cla-bot" among sts, or <<>> if there is none.
LatestClaBot(sts) ==
    LET ours == SelectSeq(sts, LAMBDA st : st.Context = "cla-bot")
    IN IF ours = <<>> THEN <<>> ELSE <<ours[1]>>

\* The statuses of the head commit of pull request n.
HeadStatuses(n) == statuses[n][pulls[n].SHA]

\* The statuses of the commit that Get returned as the head of pull request n.
ReadStatuses(n) == statuses[n][claPr.SHA]

\* Do is in the callback, past the check of the cache.
InCallback == claPc \in {"wait", "lookup", "get", "listFiles", "listStatuses", "post"}

\* A CLAChecker.Do pass has just returned nil, and since it began no allowlist
\* was installed and no head commit was pushed.
ClaPassCompleted ==
    /\ tasks # <<>>
    /\ tasks[1] = "cla"
    /\ runPc = "taskLoop"
    /\ passRes = <<"ok">>
    /\ stable

\* C4: once a CLAChecker.Do pass completes without error, the newest 'cla-bot'
\* status on the head commit of every open, existing pull request is passing
\* if its author is on the allowlist or the PR is exempt, and failing otherwise
\* (stated here only for passes during which neither the allowlist nor a head
\* commit changed).
C4_StatusUpToDate ==
    ClaPassCompleted =>
        \A n \in 1..Len(github) :
            IsOpenPR(github[n]) =>
                /\ LatestClaBot(HeadStatuses(n)) # <<>>
                /\ LatestClaBot(HeadStatuses(n))[1].State =
                     IF \/ github[n].Login \in contributors
                        \/ canSkipCLA(pulls[n].Diff, pulls[n].Diff.Files)
                       THEN "success" ELSE "failure"

\* The callback of Do for pull request n, past its three reads, returns nil
\* in this step.
CallbackReturnsNil(n) ==
    /\ claPc = "post"
    /\ claIdx = n
    /\ claPc' = "foreach"

\* This step creates exactly one status, sr, on the commit that Get returned
\* as the head of pull request n.
PostsExactly(n, sr) ==
    statuses' = [statuses EXCEPT ![n][claPr.SHA] = <<sr>> \o @]

\* The newest status of the commit that Get returned as the head of n, after
\* the step.
Posted(n) == statuses'[n][claPr.SHA][1]

\* C5: for an open PR whose author the pass found on the allowlist and whose
\* head commit (the one the callback read) has no 'cla-bot' status, the pass
\* (when its API calls succeed) posts exactly one status, on that commit: a
\* 'cla-bot' status of state "success"; a pass that finds the author on the
\* allowlist and that "success" status as the newest 'cla-bot' status posts
\* nothing for the PR, and so does every pass after the PR was cached: the
\* statuses of a commit change only in the last step of the callback, on the
\* commit it read, and a cached PR does not reach the callback.
C5_AllowlistedPostsOneSuccess ==
    /\ [](InCallback => claIdx \notin signedCLAPRs)
    /\ [](claPc = "post" => claStatuses = ReadStatuses(claIdx))
    /\ [][ \A n \in 1..MaxIssues :
             /\ \A sha \in 1..Len(statuses[n]) :
                  statuses'[n][sha] # statuses[n][sha] =>
                    (claPc = "post" /\ claIdx = n /\ sha = claPr.SHA)
             /\ (CallbackReturnsNil(n) /\ claOk) =>
                  IF LatestClaBot(ReadStatuses(n)) = <<>>
                    THEN /\ PostsExactly(n, Posted(n))
                         /\ Posted(n).Context = "cla-bot"
                         /\ Posted(n).State = "success"
                    ELSE LatestClaBot(ReadStatuses(n))[1].State = "success" =>
                           /\ statuses' = statuses
                           /\ n \in signedCLAPRs' ]_vars

\* A pull request whose only 'cla-bot' status is the one "success" the bot
\* posted for its allowlisted author, and which a later pass has cached.
C5_Witness ==
    \E n \in signedCLAPRs :
        /\ HeadStatuses(n) = <<postStatus("success"), CIStatus>>
        /\ repo[n].Login \in contributors
        /\ claPc = "foreach"
        /\ claIdx = n

\* C6: for an open PR whose author the pass did not find on the allowlist and
\* which is not exempt (the predicate is false of what the callback read),
\* with no failing 'cla-bot' status on its head commit (the one the callback
\* read), the pass (when its API calls succeed) posts exactly one status, on
\* that commit: "failure", with the CLA-signing URL; a pass that finds a
\* failing 'cla-bot' status posts nothing for the PR.
C6_UnsignedPostsOneFailure ==
    [][ \A n \in 1..MaxIssues :
          (CallbackReturnsNil(n) /\ ~claOk /\ ~canSkipCLA(claPr, claFiles)) =>
             IF \E i \in 1..Len(ReadStatuses(n)) :
                    /\ ReadStatuses(n)[i].Context = "cla-bot"
                    /\ ReadStatuses(n)[i].State = "failure"
               THEN statuses' = statuses
               ELSE /\ PostsExactly(n, Posted(n))
                    /\ Posted(n).Context = "cla-bot"
                    /\ Posted(n).State = "failure"
                    /\ Posted(n).TargetURL = ClaURL ]_vars

\* A later pass is at a non-exempt PR of an author who is not on the allowlist,
\* and finds the failing status an earlier pass posted, under a newer passing one.
C6_Witness ==
    \E n \in 1..MaxIssues :
        /\ claPc = "post"
        /\ claIdx = n
        /\ ~claOk
        /\ ~canSkipCLA(claPr, claFiles)
        /\ claStatuses = <<postStatus("success"), postStatus("failure"), CIStatus>>

\* C7: the failure of any GitHub API call made by Do (the creation of the
\* failing status included) makes Do stop and return the error to the bot
\* loop; the process keeps running.
C7_ApiFailureIsReturned ==
    apiFail # "none" =>
        /\ proc = "running"
        /\ claPc = "idle"
        /\ runPc = "afterTasks"
        /\ doErr

\* The first open pull request of the snapshot, 0 if there is none.
RECURSIVE FirstOpenPR(_)
FirstOpenPR(i) ==
    IF i > Len(repo) THEN 0
    ELSE IF IsOpenPR(repo[i]) THEN i
    ELSE FirstOpenPR(i + 1)

\* C8: Do never reads the allowlist and never posts a status before the
\* refresher has installed its first successfully fetched list: until then
\* nothing is cached or posted, and Do gets no further than the readiness wait
\* at the first open pull request.
C8_NoReadBeforeFirstLoad ==
    /\ (InCallback /\ claPc # "wait") => installed
    /\ ~installed =>
         /\ signedCLAPRs = {}
         /\ \A n \in 1..MaxIssues : \A sha \in 1..Len(statuses[n]) :
              LatestClaBot(statuses[n][sha]) = <<>>
         /\ claPc = "wait" => claIdx = FirstOpenPR(1)
         /\ claPc = "foreach" => claIdx <= FirstOpenPR(1)

\* Do is blocked at the first open pull request, issue 2, while the first fetch
\* that succeeded is still to be installed.
C8_Witness ==
    /\ claPc = "wait"
    /\ claIdx = 2
    /\ ~installed
    /\ fetchPc = "install"

\* C9: the refresher signals readiness exactly once, on its first successful
\* load: it never sends or closes twice (which would panic), its send never
\* finds the buffer full, every installed allowlist is followed by the one
\* signal or preceded by it, and once the signal is complete (sent and closed)
\* the channel stays closed, so that the readiness wait of Do does not block.
C9_ReadySignaledOnce ==
    /\ proc # "panicked"
    /\ signals <= 1
    /\ installed <=> (signals = 1 \/ fetchPc = "send")
    /\ fetchPc = "send" =>
         (~sentContributors /\ ~contributorsLoaded.closed /\ contributorsLoaded.buf = 0)
    /\ fetchPc = "close" => (~contributorsLoaded.closed /\ signals = 1)
    /\ sentContributors => (contributorsLoaded.closed /\ signals = 1)
    /\ (contributorsLoaded.closed /\ claPc = "wait") => ENABLED ClaWait

\* After the signal a later refresh has replaced the allowlist (the author of
\* a PR the bot passed is gone from it), and Do has passed the wait again.
C9_Witness ==
    /\ sentContributors
    /\ fetchPc = "fetch"
    /\ claPc = "lookup"
    /\ contributorsLoaded.buf = 0
    /\ \E n \in 1..MaxIssues :
         /\ HeadStatuses(n) = <<postStatus("success"), CIStatus>>
         /\ repo[n].Login \notin contributors

\* ------------------------------------------------------------------ refresher (SpecFetch)
\* C10: each successful refresh replaces the allowlist wholesale: the step
\* that installs a fetched list leaves exactly the logins of that list in the
\* allowlist, so a member that the list does not name is no member afterwards.
C10_RefreshReplacesAllowlist ==
    [][ (fetchPc = "install" /\ fetchPc' # "install") =>
          /\ contributors' = { fetched[i] : i \in 1..Len(fetched) }
          /\ \A l \in contributors :
               (\A i \in 1..Len(fetched) : fetched[i] # l) => l \notin contributors' ]_vars

\* A refresh after the first has fetched a list that lacks a present member.
C10_Witness ==
    /\ fetchPc = "install"
    /\ installed
    /\ \E l \in contributors : \A i \in 1..Len(fetched) : fetched[i] # l

\* C23: a failed fetch crashes nothing and changes nothing: the step in which
\* LoadContributors returns an error leaves the process running, the
\* allowlist, the channel and the count of signals as they were, and the
\* refresher waiting for its ticker; and from there its next step is the
\* next fetch.
C23_FetchErrorRetries ==
    /\ [][ (fetchPc = "fetch" /\ fetchPc' \notin {"fetch", "install"}) =>
             /\ proc' = "running"
             /\ contributors' = contributors
             /\ installed' = installed
             /\ contributorsLoaded' = contributorsLoaded
             /\ signals' = signals
             /\ sentContributors' = sentContributors
             /\ fetchPc' = "tick" ]_vars
    /\ [][ (fetchPc = "tick" /\ fetchPc' # "tick") => fetchPc' = "fetch" ]_vars

\* The first fetch has failed and the refresher waits for the tick: nothing
\* is installed and nothing was signaled.
C23_Witness ==
    /\ proc = "running"
    /\ fetchPc = "tick"
    /\ ~installed
    /\ contributors = {}
    /\ signals = 0
    /\ contributorsLoaded = [made |-> TRUE, buf |-> 0, closed |-> FALSE]

\* ------------------------------------------------------------------ the lock of the allowlist (SpecLock)
\* C24: the allowlist changes in one step only, the assignment under the
\* refresher's lock, and to the complete map of the fetched list, so that a
\* lookup, made under the checker's lock, sees the previous allowlist whole
\* or the new one whole. The checker holds the lock exactly from its Lock to
\* its Unlock around the lookup (not in the readiness wait, not in an API
\* call) and its holder never waits; so a refresher at its Lock gets the lock
\* whenever the checker is not in the lookup.
C24_LookupSeesWholeAllowlist ==
    /\ [][ contributors' # contributors =>
             /\ fetchPc = "assign"
             /\ contributorMu = "loadContributors"
             /\ contributors' = { fetched[i] : i \in 1..Len(fetched) } ]_vars
    /\ []( /\ contributorMu = "Do" <=> claPc \in {"locked", "unlock"}
           /\ contributorMu = "loadContributors" <=> fetchPc \in {"assign", "unlock"}
           /\ proc = "running" =>
                /\ contributorMu = "Do" => ENABLED (LookupLocked \/ UnlockAfterLookup)
                /\ (fetchPc = "lock" /\ claPc \notin {"locked", "unlock"}) =>
                     ENABLED LockForInstall )

\* The checker looks bob up in the installed allowlist, {alice}, while the
\* refresher, its new map of alice and bob complete, waits for the lock.
C24_Witness ==
    /\ claPc = "locked"
    /\ repo[claIdx].Login = "bob"
    /\ contributorMu = "Do"
    /\ installed
    /\ contributors = {"alice"}
    /\ fetchPc = "lock"
    /\ contributorMap = {"alice", "bob"}

\* C11: the allowlist refresh loop stops once the context given to StartFetch
\* is canceled: after the cancellation the loadContributors goroutine
\* eventually returns, so no further fetch is made, whether the fetch
\* attempted after the cancellation succeeds or fails.
C11_RefreshStopsOnCancel ==
    (ctxDone /\ fetchPc # "off") ~> (fetchPc = "done")

\* ------------------------------------------------------------------ Congratulator (SpecCongrats)
\* The Bot's one task is the Congratulator and b.repo is the snapshot its
\* current or last Do pass was given.
InCongPass ==
    /\ tasks # <<>>
    /\ tasks[1] = "congrats"
    /\ passLog # <<>>
    /\ \/ runPc = "inDo" /\ congPc # "idle"
       \/ runPc \in {"taskLoop", "afterTasks"}

\* A Congratulator.Do pass has returned nil.
CongPassCompleted == InCongPass /\ congPc = "idle" /\ passRes = <<"ok">>

\* The existing (non-tombstoned) pull requests of login u in the snapshot.
ExistingPRs(u) ==
    { n \in 1..Len(repo) :
        ~repo[n].NotExist /\ repo[n].PullRequest /\ repo[n].Login = u }

\* Pull request n is the only existing one of its author u; it is open and
\* unlabeled, and u was not known when the pass began.
FirstTimer(u, n) ==
    /\ ExistingPRs(u) = {n}
    /\ ~repo[n].Closed
    /\ NewContributorLabel \notin repo[n].Labels
    /\ u \notin knownBefore

\* The API calls of the pass for pull request n, in call order.
CallsFor(n) == SelectSeq(calls, LAMBDA c : c.n = n)

\* C12: for an author whose one existing PR is open and unlabeled and who was
\* not known before, a Do pass that returns nil has made exactly one add-label
\* call and one create-comment call for that PR; and a pass makes no API call
\* for a PR that carries the 'new-contributor' label in its snapshot or whose
\* author is known already (the second pass after a welcome).
C12_FirstTimerWelcomedOnce ==
    /\ CongPassCompleted =>
         \A u \in Logins, n \in 1..Len(repo) :
           FirstTimer(u, n) =>
             CallsFor(n) = << [call |-> "AddLabels", n |-> n],
                              [call |-> "CreateComment", n |-> n] >>
    /\ InCongPass =>
         \A i \in 1..Len(calls) :
           /\ NewContributorLabel \notin repo[calls[i].n].Labels
           /\ repo[calls[i].n].Login \notin knownBefore

C12_Witness ==
    /\ CongPassCompleted
    /\ Len(repo) = 2
    /\ FirstTimer("bob", 2)
    /\ ~repo[1].PullRequest
    /\ calls = << [call |-> "AddLabels", n |-> 2], [call |-> "CreateComment", n |-> 2] >>
    /\ NewContributorLabel \in github[2].Labels

\* C13: an author with two or more existing pull requests in the snapshot is
\* never welcomed: a Do pass makes no add-label and no create-comment call
\* for any pull request of such an author.
C13_RepeatAuthorNeverWelcomed ==
    InCongPass =>
      \A i \in 1..Len(calls) :
        Cardinality(ExistingPRs(repo[calls[i].n].Login)) < 2

C13_Witness ==
    /\ CongPassCompleted
    /\ Len(repo) = 2
    /\ ExistingPRs("alice") = {1, 2}
    /\ \A n \in 1..2 : ~repo[n].Closed /\ repo[n].Labels = {}
    /\ "alice" \notin knownBefore
    /\ "alice" \in knownContributors
    /\ calls = <<>>

\* C20: when the add-label call succeeds and the create-comment call fails,
\* Do returns the error, the label stays on the PR, and the author is marked
\* as known all the same.
C20_KnownAfterCommentFailure ==
    [][ (congPc = "comment" /\ congPc' = "idle")
        => LET n == prs[congUser]
           IN /\ calls[Len(calls)] = [call |-> "AddLabels", n |-> n]
              /\ passRes' = Append(passRes, "err")
              /\ NewContributorLabel \in github'[n].Labels
              /\ repo[n].Login \in knownContributors' ]_vars

\* ------------------------------------------------------------------ Congratulator (SpecRelabel)
\* The API calls the step makes, in call order.
NewCalls == SubSeq(calls', Len(calls) + 1, Len(calls'))

\* C21: no step of a Do pass makes an add-label or a create-comment call for
\* a pull request whose author an earlier create-comment call of this process
\* succeeded for, whatever the snapshot shows of it (the label or not); and
\* none, whatever the cache holds (nothing, in a fresh process), for a pull
\* request whose snapshot record carries the 'new-contributor' label.
C21_NoSecondWelcome ==
    [][ (congPc = "range" \/ congPc = "comment") =>
          \A i \in 1..Len(NewCalls) :
            /\ repo[NewCalls[i].n].Login \notin welcomed
            /\ NewContributorLabel \notin repo[NewCalls[i].n].Labels ]_vars

\* A pass has returned nil without a call, on a snapshot that shows the one
\* pull request of bob, welcomed by an earlier pass, open and without the label.
C21_Witness ==
    /\ CongPassCompleted
    /\ "bob" \in welcomed
    /\ "bob" \in knownBefore
    /\ \E n \in 1..Len(repo) :
         /\ ExistingPRs("bob") = {n}
         /\ ~repo[n].Closed
         /\ NewContributorLabel \notin repo[n].Labels
    /\ calls = <<>>

\* ------------------------------------------------------------------ Congratulator (SpecCongrats)
\* Pull request n is a first-PR candidate of the pass: the only existing
\* pull request of its author u, who was not known when the pass began.
Candidate(u, n) == ExistingPRs(u) = {n} /\ u \notin knownBefore

\* The snapshot shows pull request n closed or carrying the label.
ClosedOrLabeled(n) == repo[n].Closed \/ NewContributorLabel \in repo[n].Labels

\* C22: the label is added before the comment is posted: every create-comment
\* call of a pass comes after an add-label call of the same pass that
\* succeeded for the same pull request; a pass makes neither call for a
\* pull request its snapshot shows closed or labeled; and when the pass has
\* returned nil, the author of every closed or labeled candidate is known.
C22_LabelBeforeComment ==
    /\ InCongPass =>
         \A i \in 1..Len(calls) :
           /\ calls[i].call = "CreateComment" =>
                \E j \in 1..(i - 1) : calls[j] = [call |-> "AddLabels", n |-> calls[i].n]
           /\ ~ClosedOrLabeled(calls[i].n)
    /\ CongPassCompleted =>
         \A u \in Logins, n \in 1..Len(repo) :
           (Candidate(u, n) /\ ClosedOrLabeled(n)) => u \in knownContributors

\* A pass has returned nil on a snapshot with a closed first pull request of
\* alice and an open one of bob: bob's was labeled, then commented; alice's
\* got no call and alice is known.
C22_Witness ==
    /\ CongPassCompleted
    /\ Len(repo) = 2
    /\ Candidate("alice", 1) /\ repo[1].Closed
    /\ FirstTimer("bob", 2)
    /\ calls = << [call |-> "AddLabels", n |-> 2], [call |-> "CreateComment", n |-> 2] >>
    /\ "alice" \in knownContributors

\* ------------------------------------------------------------------ getUsernames (SpecCSV)
\* The records of a well-formed CSV file (every record has as many fields as
\* the first), <<>> for an empty or ill-formed one.
CsvRecords(file) ==
    LET header == Read(file, 1, 0)
        rest == ReadAll(file, header.next, Len(header.fields), <<>>)
    IN IF header.err \/ rest.err THEN <<>> ELSE <<header.fields>> \o rest.records

\* a and b are the same letter, whatever their case.
SameLetter(a, b) == a = b \/ {a, b} \in { {"u", "U"}, {"g", "G"}, {"h", "H"} }

\* cell contains name, case-insensitively.
ContainsFold(cell, name) ==
    \E i \in 0..(Len(cell) - Len(name)) :
      \A k \in 1..Len(name) : SameLetter(cell[i + k], name[k])

IsSpace(c) == c = Space \/ c = NL

\* v is cell without its leading and trailing white space.
IsTrimOf(v, cell) ==
    /\ v # <<>> => ~IsSpace(v[1]) /\ ~IsSpace(v[Len(v)])
    /\ \E a \in 0..Len(cell) :
         /\ a + Len(v) <= Len(cell)
         /\ SubSeq(cell, a + 1, a + Len(v)) = v
         /\ \A k \in 1..Len(cell) : (k <= a \/ k > a + Len(v)) => IsSpace(cell[k])

\* values are the trimmed, non-empty cells of column c of the records after
\* the header, in row order: rows[k] is the row values[k] comes from.
IsColumn(values, records, c) ==
    \E rows \in [1..Len(values) -> 2..Len(records)] :
      /\ \A k \in 1..Len(values) :
           /\ IsTrimOf(values[k], records[rows[k]][c])
           /\ values[k] # <<>>
           /\ k > 1 => rows[k - 1] < rows[k]
      /\ \A r \in 2..Len(records) :
           (\A k \in 1..Len(values) : rows[k] # r) => IsTrimOf(<<>>, records[r][c])

\* C14: for a well-formed CSV file whose header row has a cell containing
\* the column name case-insensitively, getUsernames returns without error
\* exactly the trimmed, non-empty cells of the first such column, in row
\* order, duplicates kept; when no header cell matches it returns an error;
\* and with an error it returns no values.
C14_GetUsernamesColumn ==
    csvPc = "returned" =>
      LET records == CsvRecords(csvFile)
          matches == IF records = <<>> THEN {}
                     ELSE { i \in 1..Len(records[1]) : ContainsFold(records[1][i], csvColumn) }
      IN /\ usernames.err => usernames.values = <<>>
         /\ (records # <<>> /\ matches # {}) =>
              /\ ~usernames.err
              /\ \E c \in matches :
                   /\ \A i \in matches : c <= i
                   /\ IsColumn(usernames.values, records, c)
         /\ (records # <<>> /\ matches = {}) => usernames.err

\* Header "U", column name "u", rows " u" and "u": both are returned, trimmed.
C14_Witness ==
    /\ csvPc = "returned"
    /\ csvFile = <<"U", NL, Space, "u", NL, "u">>
    /\ csvColumn = <<"u">>
    /\ usernames = [err |-> FALSE, values |-> << <<"u">>, <<"u">> >>]

\* ------------------------------------------------------------------ SpreadsheetFetcher (SpecSheet)
\* C25: with an empty ColumnName, LoadContributors on a well-formed sheet
\* returns without error the trimmed, non-empty cells of the first column
\* whose header contains "GitHub Username" case-insensitively, and returns
\* an error when no header cell contains it.
C25_DefaultColumnName ==
    (csvPc = "loaded" /\ csvColumn = <<>>) =>
      LET records == CsvRecords(csvFile)
          matches == IF records = <<>> THEN {}
                     ELSE { i \in 1..Len(records[1]) :
                              ContainsFold(records[1][i], DefaultColumnName) }
      IN /\ (records # <<>> /\ matches # {}) =>
              /\ ~usernames.err
              /\ \E c \in matches :
                   /\ \A i \in matches : c <= i
                   /\ IsColumn(usernames.values, records, c)
         /\ (records # <<>> /\ matches = {}) => usernames.err

\* ------------------------------------------------------------------ exemption (SpecExempt)
\* The file name ends in ".md".
EndsInMd(name) ==
    /\ Len(name) >= 3
    /\ name[Len(name) - 2] = "."
    /\ name[Len(name) - 1] = "m"
    /\ name[Len(name)] = "d"

\* Additions plus deletions are at most 15, or every changed file is a
\* documentation file.
ExemptDiff(diff) ==
    \/ diff.Additions + diff.Deletions <= 15
    \/ \A i \in 1..Len(diff.Files) : EndsInMd(diff.Files[i])

\* C15: the deployment's exemption predicate holds exactly when additions
\* plus deletions are at most 15 or every changed file name ends in ".md";
\* and a pull request for which it holds (here: of every head commit the
\* pull request has had) never gets a "failure" status of context 'cla-bot',
\* on no commit.
C15_ExemptGetsUnnecessary ==
    /\ \A n \in DOMAIN pulls :
         CanSkipCLA(pulls[n].Diff, pulls[n].Diff.Files) <=> ExemptDiff(pulls[n].Diff)
    /\ \A n \in DOMAIN statuses : \A sha \in 1..Len(statuses[n]) :
         \A i \in 1..Len(statuses[n][sha]) :
           statuses[n][sha][i].Context = "cla-bot" => statuses[n][sha][i].State # "failure"

\* C19: a pull request that is exempt but whose author is not on the
\* allowlist is never added to the signed-CLA cache: a pull request enters
\* signedCLAPRs only in a callback that found its author on the allowlist.
C19_ExemptNeverCached ==
    [][\A n \in signedCLAPRs' \ signedCLAPRs : claOk]_vars

\* ------------------------------------------------------------------ refresh of the snapshot (Spec)
\* C16: after every task pass Run requests a refresh (Sync); the next pass
\* starts only after a Sync that succeeded or a rebuild of the mirror after
\* ErrSplit, either of which leaves b.repo up to date; after any other Sync
\* error Run sleeps and calls Sync again; and from the end of a pass to the
\* start of the next no task's Do is called.
C16_RefreshBetweenPasses ==
    [][ /\ (runPc = "afterTasks" /\ runPc' # runPc) => runPc' = "sync"
        /\ (runPc = "sync" /\ runPc' # runPc) => runPc' \in {"tick", "reinitCorpus", "sleep"}
        /\ (runPc = "sleep" /\ runPc' # runPc) => runPc' = "sync"
        /\ (runPc' = "tick" /\ runPc' # runPc) =>
             runPc \in {"sync", "reinitCorpus"} /\ repo' = github
        /\ (runPc' = "doTasks" /\ runPc' # runPc) => runPc \in {"tick", "initCorpus"}
        /\ runPc \in {"sync", "sleep", "reinitCorpus", "tick"} =>
             inDo = {} /\ inDo' = {} /\ passLog' = passLog /\ passRes' = passRes ]_vars

\* A pass with a task has run, the Sync after it failed and Run is in its
\* back-off, while the repository has an issue the snapshot does not have.
C16_Witness ==
    /\ runPc = "sleep"
    /\ passLog # <<>>
    /\ Len(passRes) = Len(passLog)
    /\ Len(github) > Len(repo)

\* ------------------------------------------------------------------ readiness wait (FairSpecWait)
\* C17: while CLAChecker.Do waits for the allowlist's initial load, the task
\* registered after the CLAChecker is still run: from a state in which Do
\* waits and no allowlist is installed, either the initial load completes or
\* the Do of the next task is called.
C17_WaitBlocksOnlyClaTask ==
    (claPc = "wait" /\ ~installed) ~> (installed \/ Len(passLog) > 1)

\* C18: the readiness wait is cancellable: if the context is canceled while
\* Do waits, then the wait ends, unless a load succeeds.
C18_WaitIsCancellable ==
    (claPc = "wait" /\ ctxDone) ~> (claPc # "wait" \/ installed)

====
